---- MODULE Spec2Model ----
(***************************************************************************)
(* Model of the two redaction filters of libavfilter:                      *)
(*   af_aredact.c  audio: mute sample blocks inside the tracks' windows    *)
(*   vf_redact.c   video: obscure boxes in frames inside the windows       *)
(* Times of the track descriptors are whole seconds.  The audio clock is   *)
(* kept in ticks of 1/sample_rate second, so that the comparisons of the   *)
(* code (start > time_seconds, end < time_seconds) are exact.              *)
(***************************************************************************)
EXTENDS Integers, Sequences, FiniteSets, TLC

VARIABLES
    aredact,    \* af_aredact.c RedactionContext: boxtracks, time_ticks
    insamples,  \* the block filter_samples last handled and what it did
    aremoved,   \* history: ids of the audio tracks freed so far
    redact,     \* vf_redact.c RedactionContext
    cur_buf,    \* inlink->cur_buf: the frame start_frame was given, or NoPic
    outpic,     \* what end_frame last did: its output frame, what it painted
    vremoved,   \* history: ids of the video tracks freed so far
    monotone,   \* history: no frame so far came with an earlier time
    twin,       \* a second instance of the video filter fed the same frames
    loaded      \* history: the tracks init put into the store

avars == <<aredact, insamples, aremoved>>
vvars == <<redact, cur_buf, outpic, vremoved, monotone, twin>>
vars == <<aredact, insamples, aremoved, redact, cur_buf, outpic, vremoved,
          monotone, twin, loaded>>

----------------------------------------------------------------------------
(* Bounds of the model *)

MaxLines == 2        \* lines of an audio descriptor file
MaxTime == 2         \* start and end times of descriptor lines: 0..MaxTime s
MaxSamples == 2      \* samples per channel of a block: 1..MaxSamples
MaxTicks == 4        \* the audio clock is stopped at MaxTicks ticks
sample_rate == 1     \* inlink->sample_rate of the modelled stream, in Hz

\* av_get_channel_layout_nb_channels of the blocks: mono and stereo.
Channels == {1, 2}

----------------------------------------------------------------------------
(* af_aredact.c: descriptor lines and box_track_from_string *)

\* The method words of a track line; "bogus" is any other word.
AudioTokens == {"mute", "noise", "none", "bogus"}

\* The lines of an audio descriptor: a comment or empty line, a line sscanf
\* does not read three fields from, or "start,end,word".
AudioLines ==
    {[kind |-> "comment"], [kind |-> "malformed"]}
    \cup [kind : {"track"}, start : 0..MaxTime, end : 0..MaxTime,
          word : AudioTokens]

\* The method a word selects; an unknown word selects mute.
AudioMethodOf(word) ==
    CASE word = "mute" -> "mute"
      [] word = "noise" -> "noise"
      [] word = "none" -> "none"
      [] OTHER -> "mute"

\* box_track_from_string: NULL (<<>>) or the one track of the line.  id is
\* the number of the line, standing for the identity of the allocation.
AudioTrackFromString(line, id) ==
    IF line.kind # "track" THEN <<>>
    ELSE <<[id |-> id, start |-> line.start, end |-> line.end,
            method |-> AudioMethodOf(line.word)]>>

RECURSIVE ParseAudio(_, _)
\* The read loop of init: the tracks of the lines, in file order.
ParseAudio(lines, n) ==
    IF n > Len(lines) THEN <<>>
    ELSE AudioTrackFromString(lines[n], n) \o ParseAudio(lines, n + 1)

----------------------------------------------------------------------------
(* The sort of init, the same code in both filters *)

Range(a) == {a[i] : i \in DOMAIN a}

Swap(a, j, k) == [a EXCEPT ![j] = a[k], ![k] = a[j]]

\* A mutant of SortBefore: the comparison reversed.
SortBeforeReversed(x, y) == x.start > y.start

\* The test of the exchange: boxtracks[j]->start < boxtracks[k]->start.
SortBefore(x, y) == x.start < y.start

RECURSIVE SortInner(_, _, _)
SortInner(a, j, k) ==
    IF k > Len(a) THEN a
    ELSE SortInner(IF SortBefore(a[j], a[k]) THEN Swap(a, j, k) ELSE a,
                   j, k + 1)

RECURSIVE SortOuter(_, _)
SortOuter(a, j) ==
    IF j >= Len(a) THEN a ELSE SortOuter(SortInner(a, j, j + 1), j + 1)

\* The tracks as init leaves them: earliest start at the end of the array.
SortTracks(a) == SortOuter(a, 1)

----------------------------------------------------------------------------
(* The scan of the store, shared by filter_samples and end_frame *)

\* A mutant of IsFuture: a track starting exactly now is taken as future.
IsFutureInclusive(bt, now) == bt.start >= now

\* boxtrack->start > time_seconds
IsFuture(bt, now) == bt.start > now

\* A mutant of IsExpired: a track ending exactly now is taken as expired.
IsExpiredInclusive(bt, now) == bt.end <= now

\* boxtrack->end < time_seconds
IsExpired(bt, now) == bt.end < now

\* A mutant of ShuffleDown: the count drops, the entries are not moved.
ShuffleDownLast(a, box) == SubSeq(a, 1, Len(a) - 1)

\* A mutant of ShuffleDown: the freed entry is left in the array.
ShuffleDownNothing(a, box) == a

\* Free boxtracks[box], move the entries above it one down, drop the count.
ShuffleDown(a, box) ==
    [t \in 1..(Len(a) - 1) |-> IF t < box THEN a[t] ELSE a[t + 1]]

----------------------------------------------------------------------------
(* af_aredact.c: filter_samples *)

\* time_seconds of a track time, in ticks.
Ticks(seconds) == seconds * sample_rate

\* A mutant of MuteBreaks: the scan goes on after a mute track.
MuteBreaksNever(method) == FALSE

\* if (method == redact_mute) break;
MuteBreaks(method) == method = "mute"

\* A mutant of Resolved: a method once set is kept.
ResolvedFirst(method, bt) == IF method = "none" THEN bt.method ELSE method

\* method = boxtrack->method;
Resolved(method, bt) == bt.method

RECURSIVE ScanAudio(_, _, _, _)
\* The loop of filter_samples from index box down, r holding its variables.
\* skipped: the loop left through "goto finished", past the switch that
\* rewrites the samples.  used: the tracks whose method was taken.  seen:
\* the tracks boxtracks[box] was read for, in the order of the reads.
ScanAudio(a, box, now, r) ==
    IF box < 1 THEN [r EXCEPT !.boxtracks = a]
    ELSE IF IsFuture([start |-> Ticks(a[box].start)], now) THEN
        [r EXCEPT !.boxtracks = a, !.skipped = TRUE,
                  !.seen = Append(@, a[box].id)]
    ELSE IF IsExpired([end |-> Ticks(a[box].end)], now) THEN
        ScanAudio(ShuffleDown(a, box), box - 1, now,
                  [r EXCEPT !.freed = @ \cup {a[box].id},
                            !.seen = Append(@, a[box].id)])
    ELSE LET m == Resolved(r.method, a[box])
             r1 == [r EXCEPT !.method = m, !.used = @ \cup {a[box].id},
                             !.seen = Append(@, a[box].id)]
         IN  IF MuteBreaks(m) THEN [r1 EXCEPT !.boxtracks = a]
             ELSE ScanAudio(a, box - 1, now, r1)

SampleFormats == {"U8", "S16", "S32", "FLT", "DBL"}

\* The samples of an input block: none of them is 0 or the U8 midpoint.
InputSample(fmt, i) == IF fmt = "U8" THEN 200 + i ELSE 7 * i - 10

InputBlock(fmt, n) == [i \in 1..n |-> InputSample(fmt, i)]

\* A mutant of Rewritten: the test of the method is dropped.
RewrittenAlways(fmt, method, data) == [i \in 1..Len(data) |-> 0]

\* The switch of filter_samples, entered when method != redact_none: each
\* format's case writes 0 to every sample when the method is mute.
Rewritten(fmt, method, data) ==
    IF method = "mute" THEN [i \in 1..Len(data) |-> 0] ELSE data

\* filter_samples on a block of nb samples per channel.  elapsed: history,
\* the samples per channel of all the blocks so far.
FilterSamples(fmt, nb, channels) ==
    LET nb_samples == nb * channels
        now == aredact.time_ticks + nb_samples
        scan == ScanAudio(aredact.boxtracks, Len(aredact.boxtracks), now,
                          [boxtracks |-> <<>>, method |-> "none",
                           skipped |-> FALSE, freed |-> {}, used |-> {},
                           seen |-> <<>>])
        in == InputBlock(fmt, nb_samples)
        out == IF ~scan.skipped /\ scan.method # "none"
               THEN Rewritten(fmt, scan.method, in) ELSE in
    IN  /\ aredact.on
        /\ now <= MaxTicks
        /\ aredact' = [aredact EXCEPT !.boxtracks = scan.boxtracks,
                                      !.time_ticks = now]
        /\ insamples' = [format |-> fmt, nb |-> nb, channels |-> channels,
                         in |-> in, data |-> out, method |-> scan.method,
                         skipped |-> scan.skipped, forwarded |-> TRUE,
                         used |-> scan.used, seen |-> scan.seen,
                         elapsed |-> insamples.elapsed + nb]
        /\ aremoved' = aremoved \cup scan.freed
        /\ UNCHANGED vvars
        /\ UNCHANGED loaded

----------------------------------------------------------------------------
(* vf_redact.c: frames *)

FrameW == 4          \* picref->video->w, luma pixels
FrameH == 4          \* picref->video->h, luma pixels
MaxFrames == 2       \* frames of a modelled stream
MaxPts == 3          \* presentation times of frames: 0..MaxPts seconds

\* The values an indeterminate byte can take: the content of a fresh buffer,
\* of a read outside a plane, of a colour that was never written.
Garbage == {3, 250}

\* C's division of ints: the quotient truncated towards zero.
CDiv(a, b) == IF a >= 0 THEN a \div b ELSE -((-a) \div b)

Pow2(s) == 2 ^ s

\* v >> s of an int, the shift being arithmetic.
Shr(v, s) == v \div Pow2(s)

\* (v + ((1 << s) - 1)) >> s
CeilShr(v, s) == Shr(v + (Pow2(s) - 1), s)

FFMAX(a, b) == IF a > b THEN a ELSE b
FFMIN(a, b) == IF a > b THEN b ELSE a

\* The shifts of a plane: none for luma, the chroma shifts for U and V.
HShift(plane, hsub) == IF plane = 0 THEN 0 ELSE hsub
VShift(plane, vsub) == IF plane = 0 THEN 0 ELSE vsub

\* The columns and rows a plane of a frame buffer holds.
PlaneW(plane, hsub) == CeilShr(FrameW, HShift(plane, hsub))
PlaneH(plane, vsub) == CeilShr(FrameH, VShift(plane, vsub))

Planes == 0..2

\* A buffer whose every byte is v.
FilledPic(hsub, vsub, v) ==
    [p \in Planes |->
        [y \in 0..(PlaneH(p, vsub) - 1) |->
            [x \in 0..(PlaneW(p, hsub) - 1) |-> v]]]

\* The n-th input frame of the stream: no two neighbours are equal.
InputPic(n, hsub, vsub) ==
    [p \in Planes |->
        [y \in 0..(PlaneH(p, vsub) - 1) |->
            [x \in 0..(PlaneW(p, hsub) - 1) |->
                (40 + 70 * p + 90 * n + 16 * y + 5 * x) % 256]]]

NoPic == <<>>

\* Whether row y, column x is a sample of plane p of the buffer.
InPlane(pic, p, y, x) ==
    /\ y \in DOMAIN pic[p]
    /\ x \in DOMAIN pic[p][y]

\* The byte a read of plane p at row y, column x gives: outside the plane an
\* indeterminate one.
ReadAt(pic, p, y, x, g) == IF InPlane(pic, p, y, x) THEN pic[p][y][x] ELSE g

\* The painting state threaded through end_frame: the output buffer, the
\* generator, whether an access left a plane, whether a division by a zero
\* kernel width was executed.
Touch(st, pic, p, y, x) ==
    IF InPlane(pic, p, y, x) THEN st ELSE [st EXCEPT !.oob = TRUE]

\* A write of v to plane p at row y, column x of the output buffer.
WriteAt(st, p, y, x, v) ==
    IF InPlane(st.pic, p, y, x)
    THEN [st EXCEPT !.pic[p][y][x] = v]
    ELSE [st EXCEPT !.oob = TRUE]

RECURSIVE ForRange(_, _, _, _)
\* for (i = lo; i < hi; i++) st = Body(st, i);
ForRange(Body(_, _), st, lo, hi) ==
    IF lo >= hi THEN st
    ELSE LET next == Body(st, lo)
         IN  IF next = next THEN ForRange(Body, next, lo + 1, hi) ELSE next

----------------------------------------------------------------------------
(* libavutil/lfg.h: the generator the filter draws noise from *)

LfgModulus == 251

av_lfg_init(seed) == seed % LfgModulus

\* The generator after one av_lfg_get; the number drawn is the new state.
av_lfg_get(state) == (state * 37 + 11) % LfgModulus

----------------------------------------------------------------------------
(* vf_redact.c: convolve_nx and convolve_ny, the rolling average of a blur *)

noise == 10

\* Row and column of the k-th sample of the line a convolution runs along:
\* a row (convolve_nx, row[k]) or a column (convolve_ny, row[k * step]).
LineRow(axis, fixed, k) == IF axis = "x" THEN fixed ELSE k
LineCol(axis, fixed, k) == IF axis = "x" THEN k ELSE fixed

Clamp255(v) == IF v < 0 THEN 0 ELSE IF v > 255 THEN 255 ELSE v

\* blursum / blur; a division by zero that does not trap gives any value.
Quot(sum, blur, g) == IF blur = 0 THEN g ELSE CDiv(sum, blur)

\* The first loop: blurbuf[i] = (pos <= 0) ? row[0] : row[pos].
\* With no kernel the buffer keeps what the allocation held.
BlurBuf(pic, p, axis, fixed, l, blur, g) ==
    IF blur <= 0 THEN [i \in {0} |-> g]
    ELSE [i \in 0..(blur - 1) |->
            LET pos == l + i - CDiv(blur, 2)
                k == IF pos <= 0 THEN 0 ELSE pos
            IN  ReadAt(pic, p, LineRow(axis, fixed, k),
                       LineCol(axis, fixed, k), g)]

\* Whether the first loop reads outside the plane.
BlurBufOutside(pic, p, axis, fixed, l, blur) ==
    \E i \in 0..(blur - 1) :
        LET pos == l + i - CDiv(blur, 2)
            k == IF pos <= 0 THEN 0 ELSE pos
        IN  ~InPlane(pic, p, LineRow(axis, fixed, k), LineCol(axis, fixed, k))

RECURSIVE SumBuf(_, _)
SumBuf(buf, n) == IF n <= 0 THEN 0 ELSE buf[n - 1] + SumBuf(buf, n - 1)

\* One pass of the second loop, at position x of the line.
ConvolveStep(c, p, axis, fixed, maxx, blur, g, x) ==
    LET i == IF blur = 0 THEN 0 ELSE c.i % blur
        drawn == av_lfg_get(c.st.random)
        newval == Clamp255(Quot(c.sum, blur, g)
                           + (drawn % (2 * noise + 1)) - noise)
        newpos == x + CDiv(blur + 1, 2)
        st1 == WriteAt([c.st EXCEPT !.random = drawn], p,
                       LineRow(axis, fixed, x), LineCol(axis, fixed, x),
                       newval)
        k == IF newpos < maxx THEN newpos ELSE maxx - 1
        row == LineRow(axis, fixed, k)
        col == LineCol(axis, fixed, k)
        v == ReadAt(st1.pic, p, row, col, g)
    IN  [st |-> Touch(st1, st1.pic, p, row, col),
         buf |-> [c.buf EXCEPT ![i] = v],
         sum |-> c.sum - c.buf[i] + v,
         i |-> i + 1]

\* convolve_nx(l, r, maxx, row, blur, ...) on row `fixed` of plane p, and
\* convolve_ny(t, b, maxy, col, blur, ..., step) on column `fixed`.
Convolve(st, p, axis, fixed, l, r, maxx, blur, g) ==
    LET buf == BlurBuf(st.pic, p, axis, fixed, l, blur, g)
        st0 == [st EXCEPT
                   !.oob = @ \/ BlurBufOutside(st.pic, p, axis, fixed, l, blur),
                   !.divzero = @ \/ (blur = 0 /\ l < r)]
        c0 == [st |-> st0, buf |-> buf, sum |-> SumBuf(buf, blur),
               i |-> FFMAX(blur, 0)]
    IN  ForRange(LAMBDA c, x : ConvolveStep(c, p, axis, fixed, maxx, blur, g, x),
                 c0, l, r).st

----------------------------------------------------------------------------
(* vf_redact.c: blur_one_round *)

\* The horizontal pass over the three planes of luma row y.
BlurRow(st, bt, hsub, vsub, g, y) ==
    LET x == FFMAX(bt.l, 0)
        blur == CDiv(bt.r - bt.l, 2)
        xmax == FFMIN(bt.r, FrameW)
    IN  ForRange(LAMBDA s, plane :
                    LET ds == HShift(plane, hsub)
                    IN  Convolve(s, plane, "x", Shr(y, VShift(plane, vsub)),
                                 Shr(x, ds), CeilShr(xmax, ds),
                                 Shr(FrameW, ds), CeilShr(blur, ds), g),
                 st, 0, 3)

\* The vertical pass over the three planes of luma column x.
BlurCol(st, bt, hsub, vsub, g, x) ==
    LET y == FFMAX(bt.t, 0)
        ymax == FFMIN(bt.b, FrameH)
        blur == CDiv(bt.b - bt.t, 2)
    IN  ForRange(LAMBDA s, plane :
                    LET ds == VShift(plane, vsub)
                    IN  Convolve(s, plane, "y", Shr(x, HShift(plane, hsub)),
                                 Shr(y, ds), CeilShr(ymax, ds),
                                 Shr(FrameH, ds), CeilShr(blur, ds), g),
                 st, 0, 3)

\* blur_one_round with y0 = 0 and h = the frame's height.
blur_one_round(st, bt, hsub, vsub, g) ==
    LET sx == ForRange(LAMBDA s, y : BlurRow(s, bt, hsub, vsub, g, y),
                       st, FFMAX(bt.t, 0), FFMIN(FrameH, bt.b))
    IN  ForRange(LAMBDA s, x : BlurCol(s, bt, hsub, vsub, g, x),
                 sx, FFMAX(bt.l, 0), FFMIN(bt.r, FrameW))

----------------------------------------------------------------------------
(* vf_redact.c: copybox_mixold_alpha *)

RECURSIVE ISqrtIn(_, _, _)
ISqrtIn(n, lo, hi) ==
    IF lo >= hi THEN lo
    ELSE LET mid == (lo + hi + 1) \div 2
         IN  IF mid * mid <= n THEN ISqrtIn(n, mid, hi)
             ELSE ISqrtIn(n, lo, mid - 1)

\* alphax in hundredths for the sample at luma column xl of luma row y, or
\* -1 when it is negative.  With X = 2 xl - (l + r), Y = 2 y - (b + t):
\* xnorm^2 + ynormsq = (X^2 hb^2 + Y^2 wb^2) / (wb^2 hb^2) = num / den.
\* The floats of the code are taken as exact; the root is cut to hundredths.
AlphaX(bt, xl, y) ==
    LET wb == bt.r - bt.l
        hb == bt.b - bt.t
        X == 2 * xl - (bt.l + bt.r)
        Y == 2 * y - (bt.b + bt.t)
        num == X * X * hb * hb + Y * Y * wb * wb
        den == wb * wb * hb * hb
    IN  IF num > den THEN -1
        ELSE IF 25 * num < 16 * den THEN 100
        ELSE 5 * (100 - ISqrtIn((10000 * num) \div den, 0, 100))

\* A mutant of LastRef: the blend always takes the current input.
LastRefSource(source, lastref) == source

\* (lastref == NULL) ? source : lastref
LastRef(source, lastref) == IF lastref = NoPic THEN source ELSE lastref

\* The body of the loop over x, on plane `plane` of luma row y.
MixSample(st, source, lastref, bt, hsub, vsub, g, y, plane, x) ==
    LET ysub == Shr(y, VShift(plane, vsub))
        thishsub == HShift(plane, hsub)
        drawn == av_lfg_get(st.random)
        mix == (drawn % 20) + 10           \* mixlast, in fortieths
        alphax == AlphaX(bt, x * Pow2(thishsub), y)
        src == ReadAt(source, plane, ysub, x, g)
        old == ReadAt(st.pic, plane, ysub, x, g)
        last == ReadAt(lastref, plane, ysub, x, g)
        st1 == Touch([st EXCEPT !.random = drawn], st.pic, plane, ysub, x)
    IN  IF alphax < 0 THEN WriteAt(st1, plane, ysub, x, src)
        ELSE WriteAt(st1, plane, ysub, x,
                     ((100 - alphax) * src * 40
                      + alphax * ((40 - mix) * old + mix * last)) \div 4000)

MixRow(st, source, lastref, bt, hsub, vsub, g, y) ==
    ForRange(LAMBDA s, plane :
                ForRange(LAMBDA s2, x :
                            MixSample(s2, source, lastref, bt, hsub, vsub, g,
                                      y, plane, x),
                         s, Shr(FFMAX(bt.l, 0), HShift(plane, hsub)),
                         Shr(FFMIN(bt.r, FrameW), HShift(plane, hsub))),
             st, 0, 3)

copybox_mixold_alpha(st, source, lastref, bt, hsub, vsub, g) ==
    ForRange(LAMBDA s, y : MixRow(s, source, lastref, bt, hsub, vsub, g, y),
             st, FFMAX(bt.t, 0), FFMIN(FrameH, bt.b))

----------------------------------------------------------------------------
(* vf_redact.c: obscure_one_box *)

megapixel_size == 64

\* (1 - alpha) * old + alpha * colour with alpha = a / 255, cut to a byte.
AlphaBlend(a, old, colour) == ((255 - a) * old + a * colour) \div 255

\* The solid branch at luma pixel (x, y): Y, then U and V at x >> hsub of
\* chroma row y >> vsub, each blended with what the buffer holds by then.
SolidPixel(st, bt, hsub, vsub, g, y, x) ==
    LET a == bt.yuv_color[4]
        s0 == WriteAt(st, 0, y, x,
                      AlphaBlend(a, ReadAt(st.pic, 0, y, x, g), bt.yuv_color[1]))
        cy == Shr(y, vsub)
        cx == Shr(x, hsub)
        s1 == WriteAt(s0, 1, cy, cx,
                      AlphaBlend(a, ReadAt(s0.pic, 1, cy, cx, g), bt.yuv_color[2]))
    IN  WriteAt(s1, 2, cy, cx,
                AlphaBlend(a, ReadAt(s1.pic, 2, cy, cx, g), bt.yuv_color[3]))

\* The pixellate branch at luma pixel (x, y).
PixellatePixel(st, bt, hsub, vsub, g, y, x) ==
    LET x_quant == CDiv(x, megapixel_size) * megapixel_size
        y_quant == CDiv(y, megapixel_size) * megapixel_size
        qy == Shr(y_quant, vsub)
        qx == Shr(x_quant, hsub)
        cy == Shr(y, vsub)
        cx == Shr(x, hsub)
        s0 == WriteAt(Touch(st, st.pic, 0, y_quant, x_quant), 0, y, x,
                      ReadAt(st.pic, 0, y_quant, x_quant, g))
        s1 == WriteAt(Touch(s0, s0.pic, 1, qy, qx), 1, cy, cx,
                      ReadAt(s0.pic, 1, qy, qx, g))
    IN  WriteAt(Touch(s1, s1.pic, 2, qy, qx), 2, cy, cx,
                ReadAt(s1.pic, 2, qy, qx, g))

BoxPixel(st, bt, hsub, vsub, g, y, x) ==
    IF bt.method = "solid" THEN SolidPixel(st, bt, hsub, vsub, g, y, x)
    ELSE IF bt.method = "pixellate"
    THEN PixellatePixel(st, bt, hsub, vsub, g, y, x)
    ELSE st

\* obscure_one_box with y0 = 0 and h = the frame's height.
obscure_one_box(st, source, lastref, bt, hsub, vsub, g) ==
    IF bt.method = "blur" THEN
        copybox_mixold_alpha(blur_one_round(st, bt, hsub, vsub, g), source,
                             LastRef(source, lastref), bt, hsub, vsub, g)
    ELSE
        ForRange(LAMBDA s, y :
                    ForRange(LAMBDA s2, x : BoxPixel(s2, bt, hsub, vsub, g, y, x),
                             s, FFMAX(bt.l, 0), FFMIN(bt.r, FrameW)),
                 st, FFMAX(bt.t, 0), FFMIN(FrameH, bt.b))

----------------------------------------------------------------------------
(* vf_redact.c: copy_all, start_frame, end_frame *)

\* The output buffer after copy_all: avfilter_get_video_buffer gave a fresh
\* buffer, copy_all wrote w >> shift columns of every row of every plane.
copy_all(source, hsub, vsub, g) ==
    [p \in Planes |->
        [y \in DOMAIN source[p] |->
            [x \in DOMAIN source[p][y] |->
                IF x < Shr(FrameW, HShift(p, hsub)) THEN source[p][y][x]
                ELSE g]]]

RECURSIVE ScanVideo(_, _, _, _, _)
\* The first loop of end_frame from index box down.  seen: the tracks
\* boxtracks[box] was read for, in the order of the reads.
ScanVideo(a, box, now, freed, seen) ==
    IF box < 1 THEN [boxtracks |-> a, freed |-> freed, seen |-> seen]
    ELSE IF IsFuture(a[box], now)
    THEN [boxtracks |-> a, freed |-> freed, seen |-> Append(seen, a[box].id)]
    ELSE IF IsExpired(a[box], now)
    THEN ScanVideo(ShuffleDown(a, box), box - 1, now, freed \cup {a[box].id},
                   Append(seen, a[box].id))
    ELSE ScanVideo(a, box - 1, now, freed, Append(seen, a[box].id))

RECURSIVE PaintLoop(_, _, _, _, _, _, _, _, _)
\* The second loop of end_frame from index box down.
PaintLoop(st, a, box, now, source, lastref, hsub, vsub, g) ==
    IF box < 1 THEN st
    ELSE IF IsFuture(a[box], now) THEN st
    ELSE PaintLoop(
            [obscure_one_box(st, source, lastref, a[box], hsub, vsub, g)
                EXCEPT !.painted = Append(@, a[box].id)],
            a, box - 1, now, source, lastref, hsub, vsub, g)

\* end_frame of one filter instance up to the end of its second loop.
Painted(ctx, source, g) ==
    LET now == ctx.time_seconds
        scan == ScanVideo(ctx.boxtracks, Len(ctx.boxtracks), now, {}, <<>>)
        st0 == [pic |-> copy_all(source, ctx.hsub, ctx.vsub, g),
                random |-> ctx.random, oob |-> FALSE, divzero |-> FALSE,
                painted |-> <<>>]
    IN  [scan |-> scan,
         st |-> PaintLoop(st0, scan.boxtracks, Len(scan.boxtracks), now,
                          source, ctx.lastredacted, ctx.hsub, ctx.vsub, g)]

\* A mutant of NextLastRedacted: a reference once taken is kept.
NextLastRedactedKept(old, out) == IF old = NoPic THEN out ELSE old

\* The reference end_frame holds after the paint loop: the old one is
\* unreferenced, lastredacted = avfilter_ref_buffer(out_buf).
NextLastRedacted(old, out) == out

\* What a division by zero can do: end the process (SIGFPE), or go on with
\* an indeterminate quotient.
Traps(run) == IF run.st.divzero THEN BOOLEAN ELSE {FALSE}

\* The instance after end_frame.  When the process was ended the frame was
\* never sent on: out keeps the frame before it.
end_frame(ctx, out, source, run, trap) ==
    IF trap THEN
        [redact |-> [ctx EXCEPT !.boxtracks = run.scan.boxtracks],
         outpic |-> [out EXCEPT !.fault = TRUE, !.divzero = TRUE],
         freed |-> run.scan.freed]
    ELSE
        [redact |-> [ctx EXCEPT !.boxtracks = run.scan.boxtracks,
                                !.random = run.st.random,
                                !.lastredacted =
                                    NextLastRedacted(@, run.st.pic)],
         outpic |-> [pic |-> run.st.pic, painted |-> run.st.painted,
                     oob |-> run.st.oob, divzero |-> run.st.divzero,
                     fault |-> FALSE, frames |-> out.frames + 1,
                     source |-> source, lastref |-> ctx.lastredacted,
                     now |-> ctx.time_seconds, seen |-> run.scan.seen],
         freed |-> run.scan.freed]

NoTwin == [on |-> FALSE]

\* start_frame: the time of the frame is decoded, the frame is kept.
StartFrame(pts) ==
    /\ redact.on
    /\ cur_buf = NoPic
    /\ ~outpic.fault
    /\ IF twin.on THEN ~twin.outpic.fault ELSE TRUE
    /\ outpic.frames < MaxFrames
    /\ redact' = [redact EXCEPT !.time_seconds = pts]
    /\ cur_buf' = InputPic(outpic.frames, redact.hsub, redact.vsub)
    /\ monotone' = (monotone /\ (outpic.frames = 0 \/ redact.time_seconds <= pts))
    /\ twin' = IF twin.on THEN [twin EXCEPT !.redact.time_seconds = pts]
               ELSE NoTwin
    /\ UNCHANGED <<outpic, vremoved, loaded>>
    /\ UNCHANGED avars

\* end_frame, in every instance of the filter.
EndFrame ==
    /\ cur_buf # NoPic
    /\ \E g \in Garbage :
          LET run == Painted(redact, cur_buf, g)
          IN  \E trap \in Traps(run) :
                LET res == end_frame(redact, outpic, cur_buf, run, trap)
                IN  /\ redact' = res.redact
                    /\ outpic' = res.outpic
                    /\ vremoved' = vremoved \cup res.freed
    /\ twin' \in IF twin.on
                THEN UNION {LET run == Painted(twin.redact, cur_buf, g)
                            IN  {LET res == end_frame(twin.redact, twin.outpic,
                                                      cur_buf, run, trap)
                                 IN  [on |-> TRUE, redact |-> res.redact,
                                      outpic |-> res.outpic] :
                                 trap \in Traps(run)} :
                            g \in Garbage}
                ELSE {NoTwin}
    /\ cur_buf' = NoPic
    /\ UNCHANGED <<monotone, loaded>>
    /\ UNCHANGED avars

----------------------------------------------------------------------------
(* vf_redact.c: descriptor lines, box_track_from_string, init *)

MaxVLines == 2       \* lines of a video descriptor file

Box(l, r, t, b) == [l |-> l, r |-> r, t |-> t, b |-> b]

\* Boxes of descriptor lines: inside the frame, with odd edges, with
\* negative coordinates, reaching beyond the right and bottom edges, one and
\* no pixel wide, beside the frame.
Boxes ==
    {Box(0, 2, 0, 2), Box(1, 4, 1, 3), Box(-2, 2, -1, 2), Box(2, 12, 1, 11),
     Box(1, 2, 0, 3), Box(1, 1, 0, 2), Box(6, 8, 0, 2), Box(0, 3, 1, 4)}

\* The method words of a track line.  "nocolor" is a word av_parse_color
\* rejects.
VideoWords == {"pixel", "inv", "blur", "red", "lime", "red@0.5", "nocolor"}

VideoTrackLines(Windows, BoxSet, Words) ==
    {[kind |-> "track", start |-> w[1], end |-> w[2], box |-> bx, word |-> wd] :
        w \in Windows, bx \in BoxSet, wd \in Words}

OtherLines ==
    {[kind |-> "comment"], [kind |-> "malformed"], [kind |-> "seed", seed |-> 1],
     [kind |-> "badseed"]}

\* av_parse_color and RGB_TO_Y_CCIR, RGB_TO_U_CCIR, RGB_TO_V_CCIR: the
\* yuv_color of a colour word.  A rejected word leaves rgba_color unwritten.
ParseColor(word, g) ==
    CASE word = "red" -> <<81, 90, 240, 255>>
      [] word = "lime" -> <<145, 54, 34, 255>>
      [] word = "red@0.5" -> <<81, 90, 240, 127>>
      [] OTHER -> <<g, g, g, g>>

VideoMethodOf(word) ==
    CASE word = "pixel" -> "pixellate"
      [] word = "inv" -> "inverse_pixellate"
      [] word = "blur" -> "blur"
      [] OTHER -> "solid"

\* box_track_from_string: NULL (<<>>) or the one track of the line.
VideoTrackFromString(line, id, g) ==
    IF line.kind # "track" THEN <<>>
    ELSE <<[id |-> id, start |-> line.start, end |-> line.end,
            l |-> line.box.l, r |-> line.box.r, t |-> line.box.t,
            b |-> line.box.b, method |-> VideoMethodOf(line.word),
            yuv_color |-> IF VideoMethodOf(line.word) = "solid"
                          THEN ParseColor(line.word, g)
                          ELSE <<0, 0, 0, 0>>]>>

RECURSIVE ParseVideo(_, _, _)
ParseVideo(lines, n, g) ==
    IF n > Len(lines) THEN <<>>
    ELSE VideoTrackFromString(lines[n], n, g) \o ParseVideo(lines, n + 1, g)

DefaultSeed == 298379

RECURSIVE SeedOf(_, _, _)
\* The seed after the read loop: the last well-formed "seed" line wins.
SeedOf(lines, n, seed) ==
    IF n > Len(lines) THEN seed
    ELSE SeedOf(lines, n + 1,
                IF lines[n].kind = "seed" THEN lines[n].seed ELSE seed)

\* The context after init and config_input.
VideoInit(lines, hsub, vsub, g) ==
    [on |-> TRUE,
     boxtracks |-> SortTracks(ParseVideo(lines, 1, g)),
     time_seconds |-> "NAN",
     random |-> av_lfg_init(SeedOf(lines, 1, DefaultSeed)),
     lastredacted |-> NoPic,
     hsub |-> hsub, vsub |-> vsub]

\* No instance of the video filter, of the audio filter.
IdleRedact ==
    [on |-> FALSE, boxtracks |-> <<>>, time_seconds |-> "NAN", random |-> 0,
     lastredacted |-> NoPic, hsub |-> 0, vsub |-> 0]

IdleARedact == [on |-> FALSE, boxtracks |-> <<>>, time_ticks |-> 0]

IdleOutpic ==
    [pic |-> NoPic, painted |-> <<>>, oob |-> FALSE, divzero |-> FALSE,
     fault |-> FALSE, frames |-> 0, source |-> NoPic, lastref |-> NoPic,
     now |-> "NAN", seen |-> <<>>]

IdleSamples ==
    [format |-> "U8", nb |-> 0, channels |-> 0, in |-> <<>>, data |-> <<>>,
     method |-> "none", skipped |-> FALSE, forwarded |-> FALSE,
     used |-> {}, seen |-> <<>>, elapsed |-> 0]

\* log2_chroma_w, log2_chroma_h of the pixel formats modelled: 4:4:4, 4:2:2,
\* 4:2:0, 4:4:0.
ChromaShifts == {<<0, 0>>, <<1, 0>>, <<1, 1>>, <<0, 1>>}

Windows == (0..MaxTime) \X (0..MaxTime)

\* Descriptor files of the video model, each with the chroma shifts it is
\* run under.
\* Painting: one track, any box and method, shown from time 0 to MaxTime.
PaintFiles ==
    {<<ln>> : ln \in VideoTrackLines({<<0, MaxTime>>}, Boxes, VideoWords)}
    \X ChromaShifts

\* Scheduling: up to MaxVLines lines, any window, one opaque box.
ScheduleLines ==
    VideoTrackLines(Windows, {Box(0, 2, 0, 2)}, {"red"}) \cup OtherLines

ScheduleFiles ==
    (UNION {[1..n -> ScheduleLines] : n \in 0..MaxVLines}) \X {<<1, 1>>}

\* Overlap: two tracks whose boxes meet inside the frame.
OverlapLines ==
    VideoTrackLines({<<0, MaxTime>>, <<1, MaxTime>>},
                    {Box(0, 2, 0, 2), Box(1, 4, 1, 3)},
                    {"red", "lime", "red@0.5", "blur", "pixel"})

OverlapFiles == [1..2 -> OverlapLines] \X {<<0, 0>>, <<1, 1>>}

VideoFiles == PaintFiles \cup ScheduleFiles \cup OverlapFiles

InitVideoFrom(Files, on) ==
    /\ \E f \in Files, g \in Garbage :
          /\ redact = VideoInit(f[1], f[2][1], f[2][2], g)
          /\ loaded = Range(VideoInit(f[1], f[2][1], f[2][2], g).boxtracks)
          /\ twin \in IF on
                      THEN {[on |-> TRUE,
                             redact |-> VideoInit(f[1], f[2][1], f[2][2], g2),
                             outpic |-> IdleOutpic] : g2 \in Garbage}
                      ELSE {NoTwin}
    /\ cur_buf = NoPic
    /\ outpic = IdleOutpic
    /\ vremoved = {}
    /\ monotone = TRUE
    /\ aredact = IdleARedact
    /\ insamples = IdleSamples
    /\ aremoved = {}

InitVideo == InitVideoFrom(VideoFiles, FALSE)

\* Two instances of the filter given the same file and the same frames.
InitPair == InitVideoFrom(PaintFiles, TRUE)

NextVideo == (\E pts \in 0..MaxPts : StartFrame(pts)) \/ EndFrame

SpecVideo == InitVideo /\ [][NextVideo]_vars

SpecPair == InitPair /\ [][NextVideo]_vars

----------------------------------------------------------------------------
(* The audio filter: init has read a descriptor, then blocks arrive *)

Descriptors(Lines) == UNION {[1..n -> Lines] : n \in 0..MaxLines}

InitAudio ==
    /\ \E lines \in Descriptors(AudioLines) :
          /\ aredact = [on |-> TRUE,
                        boxtracks |-> SortTracks(ParseAudio(lines, 1)),
                        time_ticks |-> 0]
          /\ loaded = Range(ParseAudio(lines, 1))
    /\ insamples = IdleSamples
    /\ aremoved = {}
    /\ redact = IdleRedact
    /\ cur_buf = NoPic
    /\ outpic = IdleOutpic
    /\ vremoved = {}
    /\ monotone = TRUE
    /\ twin = NoTwin

NextAudio ==
    \E fmt \in SampleFormats, nb \in 1..MaxSamples, ch \in Channels :
        FilterSamples(fmt, nb, ch)

SpecAudio == InitAudio /\ [][NextAudio]_vars

----------------------------------------------------------------------------
(* Either filter *)

Init == InitAudio \/ InitVideo

Next == NextAudio \/ NextVideo

Spec == Init /\ [][Next]_vars

----------------------------------------------------------------------------
(* Properties *)

Ids(a) == {a[i].id : i \in DOMAIN a}

\* The audio tracks init loaded whose window holds the clock.
ActiveAudio ==
    {t \in loaded : /\ Ticks(t.start) <= aredact.time_ticks
                    /\ aredact.time_ticks <= Ticks(t.end)}

\* The video tracks init loaded whose window holds the time of the frame
\* end_frame last sent on.
ActiveVideo ==
    {t \in loaded : t.start <= outpic.now /\ outpic.now <= t.end}

\* end_frame has sent on a frame, and the process was not ended since.
FrameDone == redact.on /\ outpic.frames > 0 /\ ~outpic.fault

\* The luma pixels of a track's box inside the frame.
ClampedLuma(t) ==
    (FFMAX(t.l, 0)..(FFMIN(t.r, FrameW) - 1))
        \X (FFMAX(t.t, 0)..(FFMIN(t.b, FrameH) - 1))

OpaqueSolid(t) == t.method = "solid" /\ t.yuv_color[4] = 255

\* C1: under frame times that never decrease, the tracks end_frame paints
\* on a frame are exactly the loaded tracks with start <= t <= end, each
\* once; a track whose end is below t is not painted, on this frame or on a
\* later one.
C1_PaintedExactlyActive ==
    (FrameDone /\ monotone) =>
        /\ Range(outpic.painted) = {t.id : t \in ActiveVideo}
        /\ Len(outpic.painted) = Cardinality(Range(outpic.painted))
        /\ \A t \in loaded :
              (t.end < outpic.now \/ t.id \in vremoved)
                  => t.id \notin Range(outpic.painted)

\* A second frame of a stream whose times never decreased, with a track
\* painted on it and another whose end is behind.
C1_Witness ==
    /\ FrameDone /\ monotone /\ outpic.frames >= 2
    /\ outpic.painted # <<>>
    /\ \E t \in loaded : t.end < outpic.now /\ t.start <= outpic.now

\* C2: whenever a Mute track is among the tracks with start <= now <= end,
\* the method filter_samples resolves is Mute, wherever the other active
\* tracks start, and every sample of the block is overwritten.
C2_MuteWins ==
    (insamples.forwarded /\ \E t \in ActiveAudio : t.method = "mute") =>
        /\ insamples.method = "mute"
        /\ Len(insamples.data) = insamples.nb * insamples.channels
        /\ \A i \in DOMAIN insamples.data :
              insamples.data[i] # insamples.in[i]

\* A block during a Mute track and a later-starting track of another method.
C2_Witness ==
    /\ insamples.forwarded
    /\ insamples.method = "mute"
    /\ \E m, o \in ActiveAudio :
          m.method = "mute" /\ o.method # "mute" /\ o.start > m.start

\* C3: when no active track is Mute and the active tracks start at distinct
\* times, the resolved method is that of the active track starting last;
\* with no active track it is None.
C3_LatestStartWins ==
    (/\ insamples.forwarded
     /\ \A t \in ActiveAudio : t.method # "mute"
     /\ \A t, u \in ActiveAudio : t # u => t.start # u.start) =>
        IF ActiveAudio = {} THEN insamples.method = "none"
        ELSE \E t \in ActiveAudio :
                /\ \A u \in ActiveAudio : u.start <= t.start
                /\ insamples.method = t.method

\* A block during a Noise track and a later-starting None track.
C3_Witness ==
    /\ insamples.forwarded
    /\ insamples.method = "none"
    /\ \E t, u \in ActiveAudio :
          t.start < u.start /\ t.method = "noise" /\ u.method = "none"

\* The zero of a sample format: the midpoint of unsigned 8-bit samples.
ZeroValue(fmt) == IF fmt = "U8" THEN 128 ELSE 0

\* C4: when the resolved method is Mute every sample of the block holds the
\* zero value of its format: 128 for U8, 0 for S16, S32, FLT and DBL.
C4_MuteWritesZeroValue ==
    (insamples.forwarded /\ insamples.method = "mute") =>
        \A i \in DOMAIN insamples.data :
            insamples.data[i] = ZeroValue(insamples.format)

\* C5: two opaque SolidColor tracks with different start times painted on a
\* frame: every luma pixel in both clamped boxes, and in no other painted
\* track's, holds the colour of the track that starts later.
C5_LaterStartShows ==
    FrameDone =>
        \A a, b \in loaded :
            (/\ {a.id, b.id} \subseteq Range(outpic.painted)
             /\ OpaqueSolid(a) /\ OpaqueSolid(b)
             /\ a.start < b.start) =>
                \A px \in ClampedLuma(a) \cap ClampedLuma(b) :
                    (\A c \in loaded \ {a, b} :
                        c.id \in Range(outpic.painted)
                            => px \notin ClampedLuma(c))
                        => outpic.pic[0][px[2]][px[1]] = b.yuv_color[1]

\* Two opaque tracks of different colours, painted, whose boxes meet.
C5_Witness ==
    /\ FrameDone
    /\ \E a, b \in loaded :
          /\ {a.id, b.id} \subseteq Range(outpic.painted)
          /\ OpaqueSolid(a) /\ OpaqueSolid(b)
          /\ a.start < b.start
          /\ a.yuv_color # b.yuv_color
          /\ ClampedLuma(a) \cap ClampedLuma(b) # {}

\* C6: every read and write of a plane during end_frame has its column in
\* [0, planeWidth) and its row in [0, planeHeight), for every method, chroma
\* shift and box.
C6_AccessesInsidePlanes == ~outpic.oob

\* C7: after init no frame makes end_frame divide or take a remainder by a
\* zero kernel width; processing completes without a fault.
C7_NoDivisionByZero == ~outpic.divzero /\ ~outpic.fault

\* C8: a track removed as expired is never in the store again, is never
\* painted or consulted again, also at a time back inside its window, and
\* the count of tracks only drops, by the tracks removed; in both filters.
C8_RemovedStaysRemoved ==
    /\ Ids(redact.boxtracks) \cap vremoved = {}
    /\ Ids(aredact.boxtracks) \cap aremoved = {}
    /\ FrameDone => Range(outpic.painted) \cap vremoved = {}
    /\ insamples.used \cap aremoved = {}
    /\ redact.on =>
          Len(redact.boxtracks) + Cardinality(vremoved) = Cardinality(loaded)
    /\ aredact.on =>
          Len(aredact.boxtracks) + Cardinality(aremoved) = Cardinality(loaded)

\* A frame whose time is back inside the window of a track removed before.
C8_Witness ==
    /\ FrameDone /\ ~monotone
    /\ \E t \in loaded : t.id \in vremoved /\ t \in ActiveVideo

\* C9: when the resolved method is not Mute, filter_samples leaves every
\* sample as it came, and sends the block on.
C9_OthersLeaveSamples ==
    /\ aredact.time_ticks > 0 => insamples.forwarded
    /\ (insamples.forwarded /\ insamples.method # "mute")
          => insamples.data = insamples.in

\* A block during a Noise track, the switch of filter_samples entered.
C9_Witness ==
    /\ insamples.forwarded
    /\ insamples.method = "noise" /\ ~insamples.skipped
    /\ insamples.data = insamples.in

\* C10: two instances loaded from the same file, seed included, and given
\* the same frames send on the same frames at every step.
C10_SameOutput ==
    twin.on =>
        /\ twin.outpic.pic = outpic.pic
        /\ twin.outpic.fault = outpic.fault
        /\ twin.redact.random = redact.random

\* C11: after every call at time now, filter_samples and end_frame alike, the
\* store holds no track with end < now, also not one that starts later than
\* an active Mute track.
C11_NoExpiredInStore ==
    /\ insamples.forwarded =>
          \A i \in DOMAIN aredact.boxtracks :
              ~(Ticks(aredact.boxtracks[i].end) < aredact.time_ticks)
    /\ FrameDone =>
          \A i \in DOMAIN redact.boxtracks :
              ~(redact.boxtracks[i].end < outpic.now)

\* C12: every track in the store after load has start < end; a line whose
\* end is not above its start gives no track, in both filters.
C12_StartBeforeEnd == \A t \in loaded : t.start < t.end

\* The entries of an array whose ids are not in the set removed, in order.
Kept(a, removed) == SelectSeq(a, LAMBDA t : t.id \notin removed)

\* An array holds the loaded tracks not removed, each once, the starts not
\* increasing with the index.
OrderedStore(a, removed) ==
    /\ Range(a) = {t \in loaded : t.id \notin removed}
    /\ Len(a) = Cardinality(Ids(a))
    /\ \A i, j \in DOMAIN a : i < j => a[i].start >= a[j].start

NoRepeat(seq) == Len(seq) = Cardinality(Range(seq))

OutputWith(ref) ==
    {Painted([redact EXCEPT !.lastredacted = ref], cur_buf, g).st.pic :
        g \in Garbage}

\* C14: the previous-output reference is absent before the first frame, and
\* a blur box then blends against the current input frame; every frame sent
\* on replaces it by that frame's output, after all boxes were painted with
\* the old one; on a later frame the blend reads the output of the frame
\* before.
C14_LastRedactedLifecycle ==
    /\ []((redact.on /\ outpic.frames = 0) => redact.lastredacted = NoPic)
    /\ [](FrameDone => redact.lastredacted = outpic.pic)
    /\ [][(redact.on /\ outpic'.frames = outpic.frames + 1) =>
            /\ outpic'.lastref = redact.lastredacted
            /\ outpic.frames = 0 =>
                  /\ outpic'.lastref = NoPic
                  /\ outpic'.pic \in OutputWith(cur_buf)
            /\ outpic.frames > 0 =>
                  /\ outpic'.lastref = outpic.pic
                  /\ outpic'.pic \in OutputWith(outpic.pic)]_vars

\* A second frame with a blur box painted inside the planes, the output of
\* the first frame differing from the second input frame.
C14_Witness ==
    /\ FrameDone /\ outpic.frames >= 2
    /\ ~outpic.oob /\ ~outpic.divzero
    /\ outpic.lastref # NoPic /\ outpic.lastref # outpic.source
    /\ redact.lastredacted = outpic.pic
    /\ \E t \in loaded :
          t.method = "blur" /\ t.id \in Range(outpic.painted)

\* The samples of plane p under the clamped box of a track: its luma pixels
\* with the coordinates shifted right by the plane's shifts.
ClampedSamples(t, p) ==
    {<<Shr(px[1], HShift(p, redact.hsub)), Shr(px[2], VShift(p, redact.vsub))>> :
        px \in ClampedLuma(t)}

\* C15: one SolidColor box painted on a frame, any alpha: every sample under
\* the clamped box, on Y and on U and V at chroma resolution, holds
\* (1-a)*old + a*colour of its value before the box, the blend applied once;
\* every other sample is unchanged.
C15_SolidBlendsOnce ==
    FrameDone =>
        \A t \in loaded :
            (t.method = "solid" /\ outpic.painted = <<t.id>>) =>
                \A p \in Planes :
                    \A y \in DOMAIN outpic.pic[p] :
                        \A x \in DOMAIN outpic.pic[p][y] :
                            outpic.pic[p][y][x] =
                                IF <<x, y>> \in ClampedSamples(t, p)
                                THEN AlphaBlend(t.yuv_color[4],
                                                outpic.source[p][y][x],
                                                t.yuv_color[p + 1])
                                ELSE outpic.source[p][y][x]

\* C16: the audio clock starts at 0 and after the blocks b1..bn is the sum
\* of their durations, a block's duration being its samples per channel
\* over the sample rate, whatever the channel count.  In ticks of
\* 1/sample_rate second the sum of the durations is insamples.elapsed.
C16_ClockIsDuration ==
    aredact.on => aredact.time_ticks = insamples.elapsed

====
